---- MODULE Spec2Model ----
(***************************************************************************)
(* TaskAdderBot (src/main.py): the extraction-normalization-commit         *)
(* pipeline of handle_core_logic / process_task_creation, the name         *)
(* normalizer normalize_to_display_name and the reply mutation resolver    *)
(* handle_reply_logic.                                                     *)
(*                                                                         *)
(* JSON values are tagged records: Null, Absent (a key that is not in a    *)
(* dict), Str(<<chars>>) for text and DStr(<<y, m, d>>) for a string of    *)
(* the shape "Y-M-D" with numeric parts (which strptime may still reject). *)
(* A Python dict is a record over all the keys the code reads, the absent  *)
(* ones holding Absent.                                                    *)
(***************************************************************************)
EXTENDS Integers, Sequences, FiniteSets, TLC

VARIABLES
    norm_pc,        \* normalize_to_display_name: "call" before, "ret" after
    officers,       \* its argument officers
    assigned_name,  \* its argument assigned_name
    norm_ret,       \* what it returned, or Raise
    pc,             \* where the handler of the inbound message stands
    update,         \* the inbound message (telegram Update)
    today,          \* datetime.date.today(), as a day ordinal (0: not read yet)
    raw_officers,   \* the directory fetched for this message
    fetched,        \* how that fetch went ("none": no fetch made)
    classification, \* the language model's answer, parsed
    ntasks,         \* len(task_list)
    i,              \* 1-based position of the task the loop is at
    item,           \* task_list[i-1] as the extractor returned it
    task_data,      \* the same dict as the loop has mutated it
    original_desc,  \* original_desc
    attempt,        \* attempt of the retry loop
    success,        \* success
    faults,         \* accepted creates whose handling then failed
    req,            \* the last request sent to the tasks API
    log,            \* calls made and messages sent, in order, since the
                    \* message arrived or the loop took up the task it is at
    finished,       \* the tasks the loop is done with: position and success
    task_id,        \* the reply path's task_id
    ref_pc,         \* a confirmation and a reply to it: "created", "sent", "resolved"
    created_task,   \* the record the backend answered the POST with
    sent_text,      \* the text of the confirmation message as Telegram holds it
    match,          \* match of handle_reply_logic
    records,        \* the backend's records, in the order they were persisted
    base,           \* the records it held at the start
    h_pc,           \* concurrent commits of one title: where each handler stands
    h_attempt,      \* each handler's attempt
    h_success,      \* each handler's success
    h_posts         \* each handler's POSTs so far: name and whether accepted

norm_vars == <<norm_pc, officers, assigned_name, norm_ret>>

loop_vars == <<ntasks, i, item, task_data, original_desc, attempt, success>>

main_vars == <<pc, update, today, raw_officers, fetched, classification, ntasks, i, item,
               task_data, original_desc, attempt, success, faults, req, log, finished,
               task_id>>

ref_vars == <<ref_pc, created_task, sent_text, match>>

dup_vars == <<records, base, h_pc, h_attempt, h_success, h_posts>>

vars == <<norm_vars, main_vars, ref_vars, dup_vars>>

\* ------------------------------------------------------------------ values

Null == [t |-> "null"]
Absent == [t |-> "absent"]
Raise == [t |-> "raise"]
Str(s) == [t |-> "str", v |-> s]
DStr(ymd) == [t |-> "dstr", ymd |-> ymd]

IsText(x) == x.t = "str"
IsString(x) == x.t \in {"str", "dstr"}

\* Python truthiness of a JSON value: None and "" are falsy.
Truthy(x) == x.t = "dstr" \/ (x.t = "str" /\ Len(x.v) > 0)

\* dict.get(key, default)
Get(d, key, default) == IF d[key] = Absent THEN default ELSE d[key]

\* ------------------------------------------------------------------ str methods

LowerChar(c) == CASE c = "A" -> "a" [] c = "B" -> "b" [] OTHER -> c

\* str.lower()
Lower(s) == [k \in 1..Len(s) |-> LowerChar(s[k])]

RECURSIVE LStrip(_)
LStrip(s) == IF Len(s) > 0 /\ Head(s) = " " THEN LStrip(Tail(s)) ELSE s

RECURSIVE RStrip(_)
RStrip(s) ==
    IF Len(s) > 0 /\ s[Len(s)] = " " THEN RStrip(SubSeq(s, 1, Len(s) - 1)) ELSE s

\* str.strip()
Strip(s) == RStrip(LStrip(s))

\* ------------------------------------------------------------------ normalize_to_display_name

DefaultAgency == Str(<<"S", "t", "e", "n", "o">>)

NoMatch == [t |-> "nomatch"]

\* first loop (lines 75-78) from entry k on: the stripped display name of the
\* first entry whose display name equals target; None.strip() raises.
RECURSIVE DirectMatch(_, _, _)
DirectMatch(offs, target, k) ==
    IF k > Len(offs) THEN NoMatch
    ELSE LET raw == Get(offs[k], "display_name", Str(<<>>)) IN
         IF ~IsText(raw) THEN Raise
         ELSE LET disp == Strip(raw.v) IN
              IF Lower(disp) = target THEN Str(disp)
              ELSE DirectMatch(offs, target, k + 1)

\* second loop (lines 81-84) from entry k on.
RECURSIVE MappingMatch(_, _, _)
MappingMatch(offs, target, k) ==
    IF k > Len(offs) THEN NoMatch
    ELSE LET raw == Get(offs[k], "name", Str(<<>>)) IN
         IF ~IsText(raw) THEN Raise
         ELSE LET name == Strip(raw.v) IN
              IF Lower(name) = target
              THEN Get(offs[k], "display_name", Str(name))
              ELSE MappingMatch(offs, target, k + 1)

\* the two loops in the other order: a casual-name match wins.
normalize_mapping_first(offs, name) ==
    IF ~Truthy(name) THEN DefaultAgency
    ELSE LET target == Strip(Lower(name.v))
             direct == DirectMatch(offs, target, 1)
             mapped == MappingMatch(offs, target, 1)
         IN  IF mapped # NoMatch THEN mapped
             ELSE IF direct # NoMatch THEN direct
             ELSE name

normalize_to_display_name(offs, name) ==
    IF ~Truthy(name) THEN DefaultAgency
    ELSE LET target == Strip(Lower(name.v))
             direct == DirectMatch(offs, target, 1)
             mapped == MappingMatch(offs, target, 1)
         IN  IF direct # NoMatch THEN direct
             ELSE IF mapped # NoMatch THEN mapped
             ELSE name

\* ------------------------------------------------------------------ dates

\* a datetime.date is its proleptic Gregorian day ordinal (date.toordinal)
IsLeap(y) == y % 4 = 0 /\ (y % 100 # 0 \/ y % 400 = 0)

DaysInMonth(y, m) ==
    CASE m \in {4, 6, 9, 11} -> 30
      [] m = 2 -> IF IsLeap(y) THEN 29 ELSE 28
      [] OTHER -> 31

DaysBeforeYear(y) == (y - 1) * 365 + (y - 1) \div 4 - (y - 1) \div 100 + (y - 1) \div 400

RECURSIVE DaysBeforeMonth(_, _)
DaysBeforeMonth(y, m) ==
    IF m <= 1 THEN 0 ELSE DaysBeforeMonth(y, m - 1) + DaysInMonth(y, m - 1)

ValidYMD(ymd) ==
    /\ ymd[1] >= 1
    /\ ymd[2] \in 1..12
    /\ ymd[3] >= 1 /\ ymd[3] <= DaysInMonth(ymd[1], ymd[2])

ToOrdinal(ymd) == DaysBeforeYear(ymd[1]) + DaysBeforeMonth(ymd[1], ymd[2]) + ymd[3]

\* the years the dates of the model fall in
Years == 2023..2025

\* date.fromordinal: the year, then the month, then the day that is left
FromOrdinal(n) ==
    LET y == CHOOSE yy \in Years : DaysBeforeYear(yy) < n /\ n <= DaysBeforeYear(yy + 1)
        r == n - DaysBeforeYear(y)
        m == CHOOSE mm \in 1..12 :
                DaysBeforeMonth(y, mm) < r /\ r <= DaysBeforeMonth(y, mm) + DaysInMonth(y, mm)
    IN  <<y, m, r - DaysBeforeMonth(y, m)>>

\* a datetime.date, held as its day ordinal
Date(n) == [t |-> "date", ord |-> n]

\* date.strftime("%Y-%m-%d")
strftime(d) == DStr(FromOrdinal(d.ord))

\* datetime.strptime(s, "%Y-%m-%d").date(), or Raise
strptime(s) == IF s.t = "dstr" /\ ValidYMD(s.ymd) THEN Date(ToOrdinal(s.ymd)) ELSE Raise

\* str(n) of an integer
IntStr(n) == [t |-> "istr", n |-> n]

\* ------------------------------------------------------------------ inputs of a message

MaxTasks == 2
MaxFaults == 1

\* range(1, 6): the last attempt of the retry loop
MaxAttempts == 5

Todays == {ToOrdinal(<<2024, 1, 1>>), ToOrdinal(<<2024, 2, 25>>)}

\* what GET /employees/ may hold: nothing, one officer, an officer without a
\* display name.
FetchedDirectories ==
    { <<>>,
      <<[name |-> Str(<<"a">>), display_name |-> Str(<<"A">>)]>>,
      <<[name |-> Str(<<"a">>), display_name |-> Null]>> }

Descriptions == {Absent, Null, Str(<<>>), Str(<<"d">>)}

Deadlines ==
    {Absent, Null, Str(<<>>), DStr(<<2024, 3, 1>>), DStr(<<2024, 2, 30>>), Str(<<"x">>)}

Agencies == {Absent, Str(<<"a">>)}

\* an element of task_list that is no dict (None, a string)
NotDict == [t |-> "notdict"]

\* the priorities of the prompt and what else the extractor may write
High == Str(<<"H", "i", "g", "h">>)
Medium == Str(<<"M", "e", "d", "i", "u", "m">>)
Low == Str(<<"L", "o", "w">>)

Priorities == {High, Str(<<"U", "r", "g", "e", "n", "t">>), Null}

\* the keys of a task dict; the extractor sets the first four
EmptyTask ==
    [description |-> Absent, deadline_date |-> Absent, assigned_agency |-> Absent,
     priority |-> Absent,
     source |-> Absent, allocated_date |-> Absent, time_given |-> Absent,
     task_number |-> Absent]

\* the task dicts of the extractor: every combination of description,
\* deadline and agency without a priority, and one task with each priority
Items ==
    { [EmptyTask EXCEPT !.description = d, !.deadline_date = dl, !.assigned_agency = a] :
        d \in Descriptions, dl \in Deadlines, a \in Agencies }
    \cup { [EmptyTask EXCEPT !.description = Str(<<"d">>), !.priority = p] : p \in Priorities }

NoRequest == [op |-> "none"]

Say(kind) == [ev |-> "say", kind |-> kind]
SayTask(kind, idx) == [ev |-> "say", kind |-> kind, idx |-> idx]
SayError(why) == [ev |-> "say", kind |-> "error", why |-> why]
Call(op) == [ev |-> op]
CallId(op, id) == [ev |-> op, id |-> id]

\* the loop's variables outside the loop
LoopIdle ==
    /\ ntasks = 0
    /\ i = 0
    /\ item = NotDict
    /\ task_data = NotDict
    /\ original_desc = Absent
    /\ attempt = 0
    /\ success = FALSE

MainIdle ==
    /\ pc = "idle"
    /\ update = [reply_to_bot |-> FALSE, original_text |-> <<>>]
    /\ today = 0
    /\ raw_officers = <<>>
    /\ fetched = "none"
    /\ classification = Absent
    /\ LoopIdle
    /\ faults = 0
    /\ req = NoRequest
    /\ log = <<>>
    /\ finished = <<>>
    /\ task_id = <<>>

NormIdle ==
    /\ norm_pc = "idle"
    /\ officers = <<>>
    /\ assigned_name = Null
    /\ norm_ret = Absent

RefIdle ==
    /\ ref_pc = "idle"
    /\ created_task = Absent
    /\ sent_text = <<>>
    /\ match = Absent

MaxHandlers == 2

Handlers == 1..MaxHandlers

DupIdle ==
    /\ records = <<>>
    /\ base = <<>>
    /\ h_pc = [h \in Handlers |-> "idle"]
    /\ h_attempt = [h \in Handlers |-> 0]
    /\ h_success = [h \in Handlers |-> FALSE]
    /\ h_posts = [h \in Handlers |-> <<>>]

\* ------------------------------------------------------------------ fetch_raw_officers

\* requests.get raising, an answer with another status, an answer whose body
\* response.json() cannot decode, an answer holding a directory
FetchOutcomes ==
    {[kind |-> "exception"], [kind |-> "response", status |-> 500, body |-> <<>>],
     [kind |-> "badbody", status |-> 200]}
    \cup {[kind |-> "response", status |-> 200, body |-> d] : d \in FetchedDirectories}

\* a fetch that fails gives a directory all the same
fetch_never_empty(out) ==
    IF out.kind = "response" /\ out.status = 200 THEN out.body
    ELSE <<[name |-> Str(<<"a">>), display_name |-> Str(<<"A">>)]>>

\* lines 34-48
fetch_raw_officers(out) ==
    IF out.kind = "response" /\ out.status = 200 THEN out.body ELSE <<>>

\* how the fetch went, for the record
FetchKind(out) ==
    IF out.kind = "response" THEN (IF out.status = 200 THEN "ok" ELSE "not_200")
    ELSE out.kind

\* lines 55-61 for one entry: its line of the prompt, Absent when it gives
\* none, Raise when name or display_name is null (None.strip())
PromptEntry(e) ==
    LET name == Get(e, "name", Str(<<>>))
        disp == Get(e, "display_name", Str(<<>>))
    IN  IF ~IsText(name) \/ ~IsText(disp) THEN Raise
        ELSE IF Strip(name.v) # <<>> /\ Strip(disp.v) # <<>>
             THEN Str(Strip(name.v) \o <<" ", "-", ">", " ">> \o Strip(disp.v))
             ELSE IF Strip(disp.v) # <<>> THEN Str(Strip(disp.v)) ELSE Absent

\* lines 50-62
get_officer_prompt_list(offs) ==
    IF offs = <<>> THEN [t |-> "list", v |-> <<Str(<<"M", "e">>), Str(<<"O", "t", "h", "e", "r", "s">>)>>]
    ELSE IF \E k \in 1..Len(offs) : PromptEntry(offs[k]) = Raise THEN Raise
         ELSE [t |-> "list",
               v |-> SelectSeq([k \in 1..Len(offs) |-> PromptEntry(offs[k])],
                               LAMBDA x : x # Absent)]

\* ------------------------------------------------------------------ the extraction answer

CREATE == Str(<<"CREATE">>)
QUERY == Str(<<"QUERY">>)

NotJson == [t |-> "notjson"]
JsonArray == [t |-> "array"]

DataValues ==
    {[k |-> "list", n |-> n] : n \in 0..MaxTasks}
    \cup {[k |-> "object", n |-> 1], [k |-> "null", n |-> 1]}

JsonObjects ==
    [t : {"object"}, intent : {Absent, CREATE, QUERY, Str(<<"OTHER">>)}, data : DataValues]

\* result.text: a document, bare or between an opening and a closing fence
ResponseTexts ==
    [open : {"none", "fence_json", "fence"}, doc : JsonObjects \cup {NotJson, JsonArray},
     close : {"none", "fence"}]

\* lines 181-182 then json.loads (line 184): the slice [7:-3] or [3:-3] drops
\* the opening fence and the last three characters, which are the closing
\* fence or else the document's own end; a fence left in place, or a
\* document cut short, does not parse.
ParseResponse(r) ==
    LET cut == r.open # "none"
        left == IF cut THEN "none" ELSE r.close
        damaged == cut /\ r.close = "none"
    IN  IF r.doc = NotJson \/ damaged \/ left # "none" THEN Raise ELSE r.doc

\* ------------------------------------------------------------------ handle_core_logic

Suffix(k) == IF k = 1 THEN <<>> ELSE <<" ", "(", ToString(k), ")">>

\* f'Task {i+1}' for the 1-based position n
Placeholder(n) == Str(<<"T", "a", "s", "k", " ", ToString(n)>>)

\* the else branch without line 222: the deadline is left as it came
DeadlineLogicNoDefault(td) ==
    LET d1 == strptime(td.allocated_date) IN
    IF Truthy(td.deadline_date)
    THEN LET d2 == strptime(td.deadline_date) IN
         IF d2 = Raise THEN [td EXCEPT !.time_given = IntStr(7)]
         ELSE [td EXCEPT !.time_given = IntStr(d2.ord - d1.ord)]
    ELSE [td EXCEPT !.time_given = IntStr(7)]

\* lines 216-219 without the try: the ValueError of strptime is not caught
DeadlineUncaught(td) ==
    LET d1 == strptime(td.allocated_date) IN
    IF Truthy(td.deadline_date)
    THEN LET d2 == strptime(td.deadline_date) IN
         IF d2 = Raise THEN Raise
         ELSE [td EXCEPT !.time_given = IntStr(d2.ord - d1.ord)]
    ELSE [td EXCEPT !.time_given = IntStr(7), !.deadline_date = strftime(Date(d1.ord + 7))]

\* lines 213-222
DeadlineLogic(td) ==
    LET d1 == strptime(td.allocated_date) IN
    IF Truthy(td.deadline_date)
    THEN LET d2 == strptime(td.deadline_date) IN
         IF d2 = Raise THEN [td EXCEPT !.time_given = IntStr(7)]
         ELSE [td EXCEPT !.time_given = IntStr(d2.ord - d1.ord)]
    ELSE [td EXCEPT !.time_given = IntStr(7), !.deadline_date = strftime(Date(d1.ord + 7))]

\* lines 198-222 for the element it at position n: the loop's variables
\* after them, or what was raised.
PrepareTask(it, n) ==
    IF it = NotDict THEN [t |-> "raise", why |-> "item"]
    ELSE LET agency == normalize_to_display_name(raw_officers, Get(it, "assigned_agency", Null)) IN
         IF agency = Raise THEN [t |-> "raise", why |-> "normalize"]
         ELSE LET td == DeadlineLogic([it EXCEPT !.assigned_agency = agency,
                                                 !.source = Str(<<"VoiceBot">>),
                                                 !.allocated_date = strftime(Date(today))])
              IN  \* an exception of the deadline step would reach line 261
                  IF td = Raise THEN [t |-> "raise", why |-> "strptime"]
                  ELSE [t |-> "ok",
                        task_desc |-> Get(it, "description", Placeholder(n)),
                        task_data |-> td]

\* what a POST may come to: a non-2xx status, requests.post raising, a 2xx
\* answer handled to the end, a 2xx answer whose body does not decode, a 2xx
\* answer whose confirmation message cannot be sent.
PostOutcomes == {"rejected", "exception", "created", "created_badjson", "created_sendfail"}

Accepted(out) == out \in {"created", "created_badjson", "created_sendfail"}

\* process_task_creation (lines 90-124) for the task at position idx: what
\* it returns and the messages it sends.
process_task_creation(idx, out, suppress_error) ==
    CASE out = "created" ->
            [ret |-> TRUE, says |-> <<SayTask("created", idx)>>]
      [] out = "rejected" ->
            [ret |-> FALSE,
             says |-> IF suppress_error THEN <<>> ELSE <<SayTask("create_failed", idx)>>]
      [] OTHER ->
            [ret |-> FALSE,
             says |-> IF suppress_error THEN <<>> ELSE <<SayTask("save_error", idx)>>]

\* every attempt shows its error
ShowErrorAlways(k) == TRUE

\* line 230
ShowError(k) == (k = MaxAttempts)

\* ------------------------------------------------------------------ handle_reply_logic

MaxText == 3

RefMark == "Ref: #"

\* a message text, as the pieces the pattern tells apart: the literal
\* "Ref: #", digits, anything else
TextTokens == {RefMark, "1", "2", "x"}

Texts == UNION {[1..n -> TextTokens] : n \in 0..MaxText}

IsDigit(c) == c \in {"0", "1", "2", "3", "4", "5", "6", "7", "8", "9"}

\* \d instead of \d+: one digit only
DigitOne(text, k) == IF k <= Len(text) /\ IsDigit(text[k]) THEN <<text[k]>> ELSE <<>>

\* (\d+) at position k: the longest run of digits from there
RECURSIVE DigitRun(_, _)
DigitRun(text, k) ==
    IF k <= Len(text) /\ IsDigit(text[k]) THEN <<text[k]>> \o DigitRun(text, k + 1) ELSE <<>>

\* re.search(r"Ref: #(\d+)", text) from position k on: the leftmost match
RECURSIVE re_search(_, _)
re_search(text, k) ==
    IF k > Len(text) THEN NoMatch
    ELSE IF text[k] = RefMark /\ DigitRun(text, k + 1) # <<>>
         THEN [t |-> "match", group1 |-> DigitRun(text, k + 1)]
         ELSE re_search(text, k + 1)

DELETE == Str(<<"DELETE">>)
UPDATE == Str(<<"UPDATE">>)

\* intent["fields"]: the keys the prompt names and one it does not
NoFields ==
    [task_number |-> Absent, assigned_agency |-> Absent, deadline_date |-> Absent,
     description |-> Absent, time_given |-> Absent]

FieldDicts ==
    [task_number : {Absent, Str(<<"n">>)},
     assigned_agency : {Absent, Null, Str(<<"a">>)},
     deadline_date : {Absent, DStr(<<2024, 3, 8>>)},
     description : {Absent, Str(<<"d">>)},
     time_given : {Absent, IntStr(9)}]

ReplyObjects ==
    {[t |-> "object", action |-> a, fields |-> Absent] :
        a \in {Absent, DELETE, UPDATE, Str(<<"OTHER">>)}}
    \cup {[t |-> "object", action |-> UPDATE, fields |-> f] : f \in FieldDicts \cup {Null}}

ReplyTexts ==
    [open : {"none", "fence_json", "fence"}, doc : ReplyObjects \cup {NotJson, JsonArray},
     close : {"none", "fence"}]

\* what a DELETE, PUT or GET of one task may come to
HttpOutcomes == {"ok_200", "not_200", "exception"}

\* lines 348-357
ReplyResolve ==
    /\ pc = "reply"
    /\ \E m \in {re_search(update.original_text, 1)} :
          IF m = NoMatch
          THEN /\ log' = Append(log, Say("cannot_modify"))
               /\ pc' = "done"
               /\ task_id' = task_id
          ELSE /\ task_id' = m.group1
               /\ pc' = "classify"
               /\ log' = log
    /\ UNCHANGED <<update, today, raw_officers, fetched, classification, loop_vars, faults, req,
                   finished, norm_vars, ref_vars, dup_vars>>

\* whatever is no DELETE is taken for an UPDATE
DispatchNoElse(action) == IF action = DELETE THEN "delete" ELSE "update"

\* lines 385, 394, 431: the branch the action selects
Dispatch(action) ==
    IF action = DELETE THEN "delete" ELSE IF action = UPDATE THEN "update" ELSE "other"

\* lines 376-385, 394, 431-436
ReplyClassify ==
    /\ pc = "classify"
    /\ \E r \in ReplyTexts \cup {Raise} :
       \E doc \in {IF r = Raise THEN Raise ELSE ParseResponse(r)} :
          /\ classification' = doc
          /\ IF doc = Raise \/ doc = JsonArray
             THEN /\ log' = log \o <<Call("LLM_REPLY"), Say("reply_failed")>>
                  /\ pc' = "done"
             ELSE IF Dispatch(doc.action) = "other"
                  THEN /\ log' = log \o <<Call("LLM_REPLY"), Say("not_understood")>>
                       /\ pc' = "done"
                  ELSE /\ log' = Append(log, Call("LLM_REPLY"))
                       /\ pc' = Dispatch(doc.action)
    /\ UNCHANGED <<update, today, raw_officers, fetched, loop_vars, faults, req, finished, task_id,
                   norm_vars, ref_vars, dup_vars>>

\* a DELETE that fails is sent a second time before the failure is reported
ReplyDeleteRetry ==
    /\ pc = "delete"
    /\ \E out \in HttpOutcomes :
          /\ req' = [op |-> "DELETE", id |-> task_id, out |-> out]
          /\ log' = log \o
                CASE out = "ok_200" -> <<CallId("DELETE", task_id), Say("deleted")>>
                  [] out = "not_200" ->
                       <<CallId("DELETE", task_id), CallId("DELETE", task_id),
                         Say("delete_failed")>>
                  [] OTHER ->
                       <<CallId("DELETE", task_id), CallId("DELETE", task_id),
                         Say("reply_failed")>>
    /\ pc' = "done"
    /\ UNCHANGED <<update, today, raw_officers, fetched, classification, loop_vars, faults,
                   finished, task_id, norm_vars, ref_vars, dup_vars>>

\* lines 385-392 and the handler of line 434
ReplyDelete ==
    /\ pc = "delete"
    /\ \E out \in HttpOutcomes :
          /\ req' = [op |-> "DELETE", id |-> task_id, out |-> out]
          /\ log' = log \o
                <<CallId("DELETE", task_id),
                  CASE out = "ok_200" -> Say("deleted")
                    [] out = "not_200" -> Say("delete_failed")
                    [] OTHER -> Say("reply_failed")>>
    /\ pc' = "done"
    /\ UNCHANGED <<update, today, raw_officers, fetched, classification, loop_vars, faults,
                   finished, task_id, norm_vars, ref_vars, dup_vars>>

\* what the GET of line 412 may come to: as above, or an answer with another
\* status where the PUT's own body (the fallback of line 416) does not decode
GetOutcomes == HttpOutcomes \cup {"not_200_badjson"}

\* the confirmation is sent right after the PUT, nothing fetched again
AfterPutNoRefetch(id, put, get) ==
    CASE put = "not_200" -> <<Say("update_failed")>>
      [] put = "exception" -> <<Say("reply_failed")>>
      [] OTHER -> <<Say("updated")>>

\* lines 409-429 and the handler of line 434: what follows the PUT of task
\* id, given what the PUT and the GET come to
AfterPut(id, put, get) ==
    CASE put = "not_200" -> <<Say("update_failed")>>
      [] put = "exception" -> <<Say("reply_failed")>>
      [] OTHER ->
           IF get \in {"exception", "not_200_badjson"}
           THEN <<CallId("GET", id), Say("reply_failed")>>
           ELSE <<CallId("GET", id), Say("updated")>>

\* the model's value is sent as it came
UpdateAgencyRaw(offs, f) == f.assigned_agency

\* line 403
UpdateAgency(offs, f) == normalize_to_display_name(offs, f.assigned_agency)

\* not updates: None and the empty dict are falsy
NoUpdates(f) == f \in {Absent, Null, NoFields}

\* lines 394-429 and the handler of line 434
ReplyUpdate ==
    /\ pc = "update"
    /\ pc' = "done"
    /\ IF NoUpdates(classification.fields)
       THEN /\ log' = Append(log, Say("no_changes"))
            /\ UNCHANGED <<raw_officers, fetched, req>>
       ELSE \E fetched_out \in FetchOutcomes, put \in HttpOutcomes, get \in GetOutcomes :
            \E named \in {classification.fields.assigned_agency # Absent} :
            \E offs \in {IF named THEN fetch_raw_officers(fetched_out) ELSE raw_officers} :
            \E agency \in {IF named THEN UpdateAgency(offs, classification.fields)
                            ELSE Absent} :
            \E updates \in {[classification.fields EXCEPT !.assigned_agency = agency]} :
               /\ ~named => fetched_out = [kind |-> "exception"]
               /\ raw_officers' = offs
               /\ fetched' = IF named THEN FetchKind(fetched_out) ELSE fetched
               /\ IF agency = Raise
                  THEN /\ log' = log \o <<Call("GET_EMPLOYEES"), Say("reply_failed")>>
                       /\ put = "exception" /\ get = "exception"
                       /\ req' = req
                  ELSE /\ put # "ok_200" => get = "exception"
                       /\ req' = [op |-> "PUT", id |-> task_id, body |-> updates,
                                  out |-> put]
                       /\ log' = log
                             \o (IF named THEN <<Call("GET_EMPLOYEES")>> ELSE <<>>)
                             \o <<CallId("PUT", task_id)>>
                             \o AfterPut(task_id, put, get)
    /\ UNCHANGED <<update, today, classification, loop_vars, faults, finished, task_id,
                   norm_vars, ref_vars, dup_vars>>

Updates ==
    {[reply_to_bot |-> FALSE, original_text |-> <<>>]}
    \cup {[reply_to_bot |-> TRUE, original_text |-> t] : t \in Texts}

\* every text goes to the extraction pipeline
RouteAlwaysCore(m) == "core"

\* lines 334-344: a reply to a message of a bot goes to handle_reply_logic,
\* after which the handler returns; anything else to handle_core_logic
Route(m) == IF m.reply_to_bot THEN "reply" ELSE "core"

\* text_handler (lines 333-344), up to its first call
TextHandler ==
    /\ pc = "idle"
    /\ \E m \in Updates :
          /\ update' = m
          /\ pc' = Route(m)
          /\ log' = IF Route(m) = "reply" THEN <<>> ELSE <<Say("processing")>>
    /\ UNCHANGED <<today, raw_officers, fetched, classification, loop_vars, faults, req, finished,
                   task_id, norm_vars, ref_vars, dup_vars>>

\* the handler returns: its locals are gone and the next message can come
Return ==
    /\ pc = "done"
    /\ pc' = "idle"
    /\ update' = [reply_to_bot |-> FALSE, original_text |-> <<>>]
    /\ today' = 0
    /\ raw_officers' = <<>>
    /\ fetched' = "none"
    /\ classification' = Absent
    /\ ntasks' = 0
    /\ i' = 0
    /\ item' = NotDict
    /\ task_data' = NotDict
    /\ original_desc' = Absent
    /\ attempt' = 0
    /\ success' = FALSE
    /\ faults' = 0
    /\ req' = NoRequest
    /\ log' = <<>>
    /\ finished' = <<>>
    /\ task_id' = <<>>
    /\ UNCHANGED <<norm_vars, ref_vars, dup_vars>>

\* lines 129-132; an exception of line 132 is outside the try of line 164
\* and leaves the handler with no message sent
CoreFetch ==
    /\ pc = "core"
    /\ \E d \in Todays, out \in FetchOutcomes :
       \E offs \in {fetch_raw_officers(out)} :
          /\ today' = d
          /\ raw_officers' = offs
          /\ fetched' = FetchKind(out)
          /\ IF get_officer_prompt_list(offs) = Raise
             THEN /\ log' = log \o <<Call("GET_EMPLOYEES"), Call("uncaught")>>
                  /\ pc' = "done"
             ELSE /\ log' = Append(log, Call("GET_EMPLOYEES"))
                  /\ pc' = "extract"
    /\ UNCHANGED <<update, classification, loop_vars, faults, req, finished, task_id,
                   norm_vars, ref_vars, dup_vars>>

\* lines 164-196, 241-242 and the handler of line 261
CoreExtract ==
    /\ pc = "extract"
    /\ \E r \in ResponseTexts \cup {Raise} :
          LET doc == IF r = Raise THEN Raise ELSE ParseResponse(r)
              n == IF doc.t = "object" /\ doc.intent = CREATE THEN doc.data.n ELSE 0
          IN  /\ classification' = doc
              /\ ntasks' = n
              /\ i' = IF n > 0 THEN 1 ELSE 0
              /\ CASE r = Raise ->
                        /\ log' = log \o <<Call("LLM"), SayError("generate_content")>>
                        /\ pc' = "done"
                   [] r # Raise /\ doc = Raise ->
                        /\ log' = log \o <<Call("LLM"), SayError("json")>>
                        /\ pc' = "done"
                   [] r # Raise /\ doc = JsonArray ->
                        /\ log' = log \o <<Call("LLM"), SayError("classification")>>
                        /\ pc' = "done"
                   [] OTHER ->
                        IF doc.intent = CREATE
                        THEN IF n = 0
                             THEN /\ log' = log \o <<Call("LLM"), Say("no_tasks")>>
                                  /\ pc' = "done"
                             ELSE /\ log' = log \o <<Call("LLM"), Say("found")>>
                                  /\ pc' = "task"
                        ELSE IF doc.intent = QUERY
                             THEN /\ log' = log \o <<Call("LLM"), Say("searching")>>
                                  /\ pc' = "query"
                             ELSE /\ log' = Append(log, Call("LLM"))
                                  /\ pc' = "done"
    /\ UNCHANGED <<update, today, raw_officers, fetched, item, task_data, original_desc,
                   attempt, success, faults, req, finished, task_id, norm_vars, ref_vars, dup_vars>>

\* the elements task_list may hold at the position the loop is at; each is
\* read once, when the loop reaches it
ItemsAt == 
    CASE classification.data.k = "list" -> Items \cup {NotDict}
      [] classification.data.k = "object" -> Items
      [] OTHER -> {NotDict}

\* lines 197-222: the loop takes the next element and pre-processes it
CoreTask ==
    /\ pc = "task"
    /\ \E it \in ItemsAt : \E p \in {PrepareTask(it, i)} :
          /\ item' = it
          /\ IF p.t = "raise"
             THEN /\ log' = <<SayError(p.why)>>
                  /\ pc' = "done"
                  /\ UNCHANGED <<task_data, original_desc, attempt>>
             ELSE /\ task_data' = p.task_data
                  /\ original_desc' = p.task_desc
                  /\ attempt' = 1
                  /\ pc' = "attempt"
                  /\ log' = <<>>
    /\ success' = FALSE
    /\ UNCHANGED <<update, today, raw_officers, fetched, classification, ntasks, i, faults,
                   req, finished, task_id, norm_vars, ref_vars, dup_vars>>

\* lines 225-233: one turn of the retry loop, process_task_creation included
CoreAttempt ==
    /\ pc = "attempt"
    /\ IF ~IsText(original_desc)
       THEN \* original_desc + suffix raises TypeError
            /\ log' = Append(log, SayError("task_number"))
            /\ pc' = "done"
            /\ UNCHANGED <<task_data, attempt, success, faults, req>>
       ELSE \E out \in PostOutcomes :
            \E body \in {[task_data EXCEPT
                             !.task_number = Str(original_desc.v \o Suffix(attempt)),
                             !.description = Str(<<>>)]} :
               LET show_error == ShowError(attempt)
                   r == process_task_creation(i, out, ~show_error)
                   fault == out \in {"created_badjson", "created_sendfail"}
               IN  /\ fault => faults < MaxFaults
                   /\ faults' = IF fault THEN faults + 1 ELSE faults
                   /\ task_data' = body
                   /\ req' = [op |-> "POST", idx |-> i, attempt |-> attempt,
                              body |-> body, accepted |-> Accepted(out)]
                   /\ log' = log \o <<[ev |-> "POST", idx |-> i, attempt |-> attempt,
                                       task_number |-> body.task_number,
                                       accepted |-> Accepted(out)]>> \o r.says
                   /\ success' = r.ret
                   /\ IF r.ret \/ attempt = MaxAttempts
                      THEN pc' = "pause" /\ attempt' = attempt
                      ELSE pc' = "attempt" /\ attempt' = attempt + 1
    /\ UNCHANGED <<update, today, raw_officers, fetched, classification, ntasks, i, item,
                   original_desc, finished, task_id, norm_vars, ref_vars, dup_vars>>

\* lines 236-239 and the step of the for loop
CorePause ==
    /\ pc = "pause"
    /\ IF i < ntasks
       THEN i' = i + 1 /\ pc' = "task"
       ELSE i' = i /\ pc' = "done"
    /\ finished' = Append(finished, [idx |-> i, success |-> success])
    /\ UNCHANGED <<update, today, raw_officers, fetched, classification, ntasks, item, task_data,
                   original_desc, attempt, success, faults, req, log, task_id, norm_vars, ref_vars, dup_vars>>

\* lines 241-259: GET /tasks/, then the answer of the language model
QueryOutcomes == {"answered", "not_200", "exception"}

CoreQuery ==
    /\ pc = "query"
    /\ \E out \in QueryOutcomes :
          /\ req' = [op |-> "GET_TASKS"]
          /\ log' = log \o
                CASE out = "answered" ->
                        IF classification.data.k = "object"
                        THEN <<Call("GET_TASKS"), Call("LLM_QUERY"), Say("answer")>>
                        ELSE <<Call("GET_TASKS"), SayError("search_query")>>
                  [] out = "not_200" -> <<Call("GET_TASKS"), Say("fetch_failed")>>
                  [] OTHER -> <<Call("GET_TASKS"), SayError("requests")>>
    /\ pc' = "done"
    /\ UNCHANGED <<update, today, raw_officers, fetched, classification, loop_vars, faults,
                   finished, task_id, norm_vars, ref_vars, dup_vars>>

Init == MainIdle /\ NormIdle /\ RefIdle /\ DupIdle

Next ==
    \/ TextHandler
    \/ Return
    \/ CoreFetch
    \/ CoreExtract
    \/ CoreTask
    \/ CoreAttempt
    \/ CorePause
    \/ CoreQuery
    \/ ReplyResolve
    \/ ReplyClassify
    \/ ReplyDelete
    \/ ReplyUpdate

Spec == Init /\ [][Next]_vars

\* ------------------------------------------------------------------ SpecNorm

MaxOfficers == 2

\* the text values names are drawn from: empty, two spellings of one name
\* that differ in case, one padded with whitespace, another name.
NameTexts == {<<>>, <<" ">>, <<"a">>, <<"A">>, <<" ", "a">>, <<"b">>}

NameValues == {Str(s) : s \in NameTexts} \cup {Null}

OfficerEntries == [name : NameValues \cup {Absent}, display_name : NameValues \cup {Absent}]

Directories == UNION {[1..n -> OfficerEntries] : n \in 0..MaxOfficers}

NormInit ==
    /\ norm_pc = "call"
    /\ officers \in Directories
    /\ assigned_name \in NameValues
    /\ norm_ret = Absent
    /\ MainIdle
    /\ RefIdle
    /\ DupIdle

NormCall ==
    /\ norm_pc = "call"
    /\ norm_ret' = normalize_to_display_name(officers, assigned_name)
    /\ norm_pc' = "ret"
    /\ UNCHANGED <<officers, assigned_name, main_vars, ref_vars, dup_vars>>

NormNext == NormCall

SpecNorm == NormInit /\ [][NormNext]_vars

\* ------------------------------------------------------------------ SpecRef

\* the ids the backend assigns
Ids == {1, 2, 12}

\* the records the backend may answer an accepted POST with: the task_number
\* is a text of the same pieces as the texts of the reply path
CreatedTasks == [task_number : Texts, id : Ids]

Digit(d) ==
    CASE d = 0 -> "0" [] d = 1 -> "1" [] d = 2 -> "2" [] d = 3 -> "3" [] d = 4 -> "4"
      [] d = 5 -> "5" [] d = 6 -> "6" [] d = 7 -> "7" [] d = 8 -> "8" [] OTHER -> "9"

\* str(n) of a natural number, as the f-string of line 102 formats the id
RECURSIVE Decimal(_)
Decimal(n) == IF n < 10 THEN <<Digit(n)>> ELSE Decimal(n \div 10) \o <<Digit(n % 10)>>

\* the marker as line 102 writes it, in Markdown
RefMarkdown == "**Ref:** #"

\* lines 99-105: the confirmation as sent, in the pieces the pattern tells
\* apart; the title comes before the reference
ConfirmationReply(ct) ==
    <<"x">> \o ct.task_number \o <<"x", RefMarkdown>> \o Decimal(ct.id) \o <<"x">>

\* parse_mode='Markdown' (line 110): the text of the message is the source
\* without its markup
Render(src) ==
    [k \in 1..Len(src) |-> IF src[k] = RefMarkdown THEN RefMark ELSE src[k]]

RefInit ==
    /\ ref_pc = "created"
    /\ created_task \in CreatedTasks
    /\ sent_text = <<>>
    /\ match = Absent
    /\ MainIdle
    /\ NormIdle
    /\ DupIdle

\* process_task_creation, lines 96-110: the confirmation is sent
RefConfirm ==
    /\ ref_pc = "created"
    /\ sent_text' = Render(ConfirmationReply(created_task))
    /\ ref_pc' = "sent"
    /\ UNCHANGED <<created_task, match, main_vars, norm_vars, dup_vars>>

\* handle_reply_logic, lines 348-357, for a reply to that confirmation
RefResolve ==
    /\ ref_pc = "sent"
    /\ match' = re_search(sent_text, 1)
    /\ ref_pc' = "resolved"
    /\ UNCHANGED <<created_task, sent_text, main_vars, norm_vars, dup_vars>>

RefNext == RefConfirm \/ RefResolve

SpecRef == RefInit /\ [][RefNext]_vars

\* ------------------------------------------------------------------ SpecDup

\* the title of the identical commands
Title == <<"d">>

\* the name of attempt k (line 227)
NameOfAttempt(k) == Str(Title \o Suffix(k))

\* the backends the commands may meet: any of the five names already taken
InitialBackends ==
    { [k \in 1..Len(q) |-> [task_number |-> NameOfAttempt(q[k]), by |-> 0]] :
        q \in { r \in UNION {[1..n -> 1..MaxAttempts] : n \in 0..MaxAttempts} :
                  \A a, b \in 1..Len(r) : a < b => r[a] < r[b] } }

NamesIn(recs) == {recs[k].task_number : k \in 1..Len(recs)}

\* the backend behind requests.post (line 93): it refuses a create only when
\* the task_number is taken, and persists the record otherwise
BackendPost(recs, body) ==
    IF body.task_number \in NamesIn(recs)
    THEN [status |-> 409, records |-> recs]
    ELSE [status |-> 201, records |-> Append(recs, body)]

\* what process_task_creation may make of the answer (lines 95-124): a
\* refusal, or a create handled to the end, or a create whose body does not
\* decode or whose confirmation cannot be sent
OutcomesOf(status) ==
    IF status = 201 THEN {"created", "created_badjson", "created_sendfail"}
    ELSE {"rejected"}

DupInit ==
    /\ base \in InitialBackends
    /\ records = base
    /\ h_pc = [h \in Handlers |-> "attempt"]
    /\ h_attempt = [h \in Handlers |-> 1]
    /\ h_success = [h \in Handlers |-> FALSE]
    /\ h_posts = [h \in Handlers |-> <<>>]
    /\ MainIdle
    /\ NormIdle
    /\ RefIdle

\* lines 225-233 in handler h: one turn of the retry loop,
\* process_task_creation and the backend's answer included
DupAttempt(h) ==
    /\ h_pc[h] = "attempt"
    /\ \E body \in {[task_number |-> NameOfAttempt(h_attempt[h]), by |-> h]} :
       \E ans \in {BackendPost(records, body)} :
       \E out \in OutcomesOf(ans.status) :
          LET r == process_task_creation(h, out, ~ShowError(h_attempt[h])) IN
          /\ records' = ans.records
          /\ h_posts' = [h_posts EXCEPT ![h] =
                            Append(@, [task_number |-> body.task_number,
                                       accepted |-> Accepted(out)])]
          /\ h_success' = [h_success EXCEPT ![h] = r.ret]
          /\ IF r.ret \/ h_attempt[h] = MaxAttempts
             THEN h_pc' = [h_pc EXCEPT ![h] = "pause"] /\ h_attempt' = h_attempt
             ELSE h_pc' = h_pc /\ h_attempt' = [h_attempt EXCEPT ![h] = @ + 1]
    /\ UNCHANGED <<base, main_vars, norm_vars, ref_vars>>

\* lines 236-239 in handler h: the task is left
DupPause(h) ==
    /\ h_pc[h] = "pause"
    /\ h_pc' = [h_pc EXCEPT ![h] = "done"]
    /\ UNCHANGED <<records, base, h_attempt, h_success, h_posts, main_vars, norm_vars,
                   ref_vars>>

DupNext == \E h \in Handlers : DupAttempt(h) \/ DupPause(h)

SpecDup == DupInit /\ [][DupNext]_vars

\* the entry's display name as the first loop reads it, and its casual name
DispOf(k) == Get(officers[k], "display_name", Str(<<>>))
NameOf(k) == Get(officers[k], "name", Str(<<>>))

\* C4: normalize_to_display_name is total: whatever the candidate and the
\* directory (entries with a missing, null or empty name or display_name
\* included), it returns a string and never raises.
C4_Total == norm_pc = "ret" => IsString(norm_ret)

\* C5 as stated: null/empty gives the default; else a case-insensitive exact
\* match with a display name gives a matching display name; else a
\* case-insensitive exact match with a casual name gives the display name
\* paired with a matching name; else the candidate comes back unchanged.
\* (Stated for directories whose names and display names are all text and
\* for candidates that are null, empty or hold a non-blank character, so
\* that neither a raise nor a blank candidate is what refutes it.)
C5_ExactMatch ==
    (/\ norm_pc = "ret"
     /\ \A k \in 1..Len(officers) : IsText(officers[k].name) /\ IsText(officers[k].display_name)
     /\ Truthy(assigned_name) => Strip(assigned_name.v) # <<>>) =>
        IF ~Truthy(assigned_name) THEN norm_ret = DefaultAgency
        ELSE LET c == Lower(assigned_name.v)
                 DH == {k \in 1..Len(officers) :
                          IsText(officers[k].display_name)
                          /\ Lower(officers[k].display_name.v) = c}
                 NH == {k \in 1..Len(officers) :
                          IsText(officers[k].name) /\ Lower(officers[k].name.v) = c}
             IN  IF DH # {} THEN \E k \in DH : norm_ret = officers[k].display_name
                 ELSE IF NH # {} THEN \E k \in NH : norm_ret = officers[k].display_name
                 ELSE norm_ret = assigned_name

Min(S) == CHOOSE k \in S : \A j \in S : k <= j

\* C5 (amended): the precedence holds with the comparison made on the
\* lower-cased candidate and the entries' values, both stripped of
\* surrounding whitespace: a null/empty candidate gives "Steno"; else the
\* first entry whose stripped display name matches gives that stripped
\* display name, before any casual name is looked at; else the first entry
\* whose stripped casual name matches gives its display name as stored (its
\* stripped casual name when it has no display_name key); else the candidate
\* comes back unchanged. The call raises only on a directory that holds a
\* null name or display_name.
C5_Precedence ==
    norm_pc = "ret" =>
        /\ ~Truthy(assigned_name) => norm_ret = DefaultAgency
        /\ norm_ret = Raise =>
               \E k \in 1..Len(officers) : Null \in {officers[k].name, officers[k].display_name}
        /\ (Truthy(assigned_name) /\ norm_ret # Raise) =>
               LET c == Strip(Lower(assigned_name.v))
                   DH == {k \in 1..Len(officers) :
                            IsText(DispOf(k)) /\ Lower(Strip(DispOf(k).v)) = c}
                   NH == {k \in 1..Len(officers) :
                            IsText(NameOf(k)) /\ Lower(Strip(NameOf(k).v)) = c}
               IN  IF DH # {} THEN norm_ret = Str(Strip(DispOf(Min(DH)).v))
                   ELSE IF NH # {}
                        THEN norm_ret = Get(officers[Min(NH)], "display_name",
                                            Str(Strip(NameOf(Min(NH)).v)))
                        ELSE norm_ret = assigned_name

\* the candidate matches the casual name of entry 1 and the display name of
\* entry 2, the two entries giving different answers, and entry 2 wins.
C5_Witness ==
    /\ norm_pc = "ret"
    /\ Len(officers) = 2
    /\ Truthy(assigned_name)
    /\ IsText(officers[1].name) /\ IsText(officers[1].display_name)
    /\ IsText(officers[2].display_name)
    /\ Lower(Strip(officers[1].name.v)) = Strip(Lower(assigned_name.v))
    /\ Lower(Strip(officers[2].display_name.v)) = Strip(Lower(assigned_name.v))
    /\ Lower(Strip(officers[1].display_name.v)) # Strip(Lower(assigned_name.v))
    /\ norm_ret = Str(Strip(officers[2].display_name.v))
    /\ norm_ret # officers[1].display_name
    /\ norm_ret # assigned_name

\* ------------------------------------------------------------------ the CREATE path

Posts(l) == SelectSeq(l, LAMBDA e : e.ev = "POST")
Failures(l) == SelectSeq(l, LAMBDA e : e.ev = "say" /\ e.kind \in {"create_failed", "save_error"})
Errors(l) == SelectSeq(l, LAMBDA e : e.ev = "say" /\ e.kind = "error")

\* the five names of a task titled D, in the order they are tried
RetryNames(D) ==
    << D, D \o <<" ", "(", "2", ")">>, D \o <<" ", "(", "3", ")">>,
       D \o <<" ", "(", "4", ")">>, D \o <<" ", "(", "5", ")">> >>

\* C1: while every POST of the task the loop is at has been refused, the POSTs
\* are attempts 1, 2, ... with the names D, D (2), ..., D (5), there are at
\* most 5, no failure message is sent before the fifth, exactly one right
\* after it, and the loop leaves the task only after the fifth.
C1_RetryBound ==
    LET posts == Posts(log)
        n == Len(posts)
    IN  (\A k \in 1..n : ~posts[k].accepted) =>
            /\ n <= 5
            /\ \A k \in 1..n :
                  /\ posts[k].attempt = k
                  /\ posts[k].task_number = Str(RetryNames(original_desc.v)[k])
            /\ Len(Failures(log)) = IF n = 5 THEN 1 ELSE 0
            /\ n = 5 => /\ log[Len(log)] \in {SayTask("create_failed", posts[5].idx),
                                             SayTask("save_error", posts[5].idx)}
                        /\ log[Len(log) - 1] = posts[5]
            /\ (pc = "pause" /\ ~success) => n = 5

\* the backend has refused all five names of a task and the one failure
\* message is out
C1_Witness ==
    /\ pc = "pause"
    /\ ~success
    /\ Len(Posts(log)) = 5
    /\ \A k \in 1..5 : ~Posts(log)[k].accepted
    /\ Posts(log)[5].task_number = Str(<<"d", " ", "(", "5", ")">>)
    /\ Failures(log) = <<SayTask("create_failed", i)>>

Mutating(l) == SelectSeq(l, LAMBDA e : e.ev \in {"POST", "PUT", "DELETE"})

\* C2: when the model's answer does not parse, or parses without an intent
\* key, the handler ends with an error message sent and no create, update or
\* delete issued.
C2_ExtractionError ==
    (/\ pc = "done"
     /\ ~update.reply_to_bot
     /\ \/ classification = Raise
        \/ (classification.t = "object" /\ classification.intent = Absent)) =>
        /\ Errors(log) # <<>>
        /\ Mutating(log) = <<>>

\* the request is the POST of the task the loop is at
PostOfItem == req.op = "POST" /\ req.idx = i /\ pc \in {"attempt", "pause", "done"}

\* C6: a task without a deadline (absent, null or empty) is sent with
\* deadline_date seven days after allocated_date, and time_given "7".
C6_DefaultDeadline ==
    (PostOfItem /\ ~Truthy(item.deadline_date)) =>
        /\ req.body.time_given = IntStr(7)
        /\ req.body.allocated_date.t = "dstr" /\ ValidYMD(req.body.allocated_date.ymd)
        /\ req.body.deadline_date.t = "dstr" /\ ValidYMD(req.body.deadline_date.ymd)
        /\ ToOrdinal(req.body.deadline_date.ymd) = ToOrdinal(req.body.allocated_date.ymd) + 7

\* allocated on 2024-02-25 with a null deadline: accepted with 2024-03-03
C6_Witness ==
    /\ PostOfItem
    /\ req.accepted
    /\ item.deadline_date = Null
    /\ req.body.allocated_date = DStr(<<2024, 2, 25>>)
    /\ req.body.deadline_date = DStr(<<2024, 3, 3>>)
    /\ req.body.time_given = IntStr(7)

Unparseable(it) ==
    it # NotDict /\ Truthy(it.deadline_date) /\ strptime(it.deadline_date) = Raise

\* C7: a deadline that is present and does not parse raises nothing and does
\* not abort the batch: the loop goes on to the task's POSTs, every one of
\* which carries time_given "7"; such a task is abandoned only for what its
\* other fields raise.
C7_ParseFallback ==
    Unparseable(item) =>
        /\ pc \in {"attempt", "pause"} => task_data.time_given = IntStr(7)
        /\ PostOfItem => req.body.time_given = IntStr(7)
        /\ \A k \in 1..Len(log) :
              (log[k].ev = "say" /\ log[k].kind = "error") =>
                  log[k].why \in {"normalize", "task_number"}

\* a task whose deadline is no date has been accepted by the backend
C7_Witness ==
    /\ pc = "pause"
    /\ success
    /\ PostOfItem
    /\ req.accepted
    /\ item.deadline_date = Str(<<"x">>)
    /\ req.body.time_given = IntStr(7)
    /\ finished # <<>>

\* C8: every record the backend accepts on the CREATE path has
\* time_given = deadline_date - allocated_date in days.
C8_Consistent ==
    (req.op = "POST" /\ req.accepted) =>
        /\ strptime(req.body.deadline_date) # Raise
        /\ strptime(req.body.allocated_date) # Raise
        /\ req.body.time_given =
              IntStr(strptime(req.body.deadline_date).ord
                     - strptime(req.body.allocated_date).ord)

\* C10: the first attempt of the task at position i is named by the task's
\* description when that is non-empty, and "Task i" when it is absent, null
\* or empty.
C10_TaskNumber ==
    /\ (PostOfItem /\ req.attempt = 1) =>
          req.body.task_number =
             IF Truthy(item.description) THEN item.description
             ELSE Str(<<"T", "a", "s", "k", " ", ToString(i)>>)
    /\ \A k \in 1..Len(log) :
          (log[k].ev = "say" /\ log[k].kind = "error") => log[k].why # "task_number"

\* C11: every record sent to the backend on the CREATE path has a priority
\* of High, Medium or Low, and Medium when the extractor gave none or
\* another value.
C11_Priority ==
    PostOfItem =>
        /\ req.body.priority \in {High, Medium, Low}
        /\ item.priority \notin {High, Medium, Low} => req.body.priority = Medium

\* the handler is in, or has left, the loop over a CREATE batch
InBatch ==
    /\ ~update.reply_to_bot
    /\ pc \in {"task", "attempt", "pause", "done"}
    /\ classification.t = "object"
    /\ classification.intent = CREATE
    /\ ntasks > 0

\* C12: within one CREATE batch the tasks are committed in list order: the
\* tasks the loop is done with are 1, 2, ... in that order, every POST is for
\* the task that follows them, the loop leaves a task only once a POST for
\* it was accepted or five were made, and when the handler ends every task
\* of the list has been gone through.
C12_ListOrder ==
    InBatch =>
        /\ \A k \in 1..Len(finished) : finished[k].idx = k
        /\ pc \in {"task", "attempt", "pause"} => Len(finished) = i - 1
        /\ \A k \in 1..Len(log) :
              log[k].ev = "POST" =>
                 /\ log[k].idx \in {Len(finished), Len(finished) + 1}
                 /\ pc \in {"attempt", "pause"} => log[k].idx = i
        /\ pc = "pause" =>
              \/ \E k \in 1..Len(Posts(log)) : Posts(log)[k].accepted
              \/ Len(Posts(log)) = MaxAttempts
        /\ pc = "done" => Len(finished) = ntasks

\* ------------------------------------------------------------------ the reply path

\* C13: a text that replies to a message of a bot is handled by the reply
\* resolver only: the handler never enters the extraction pipeline, sends
\* neither the processing notice nor the extraction or query prompt, and
\* issues no POST and no listing of the tasks.
C13_ReplyOnly ==
    update.reply_to_bot =>
        /\ pc \in {"reply", "classify", "delete", "update", "done"}
        /\ req.op \notin {"POST", "GET_TASKS"}
        /\ today = 0
        /\ \A k \in 1..Len(log) :
              /\ log[k].ev \notin {"POST", "LLM", "LLM_QUERY", "GET_TASKS"}
              /\ log[k] # Say("processing")

\* a reply has been resolved to a DELETE, which the backend carried out
C13_Witness ==
    /\ update.reply_to_bot
    /\ pc = "done"
    /\ req.op = "DELETE"
    /\ log = <<Call("LLM_REPLY"), CallId("DELETE", task_id), Say("deleted")>>

\* position p of the text holds the marker and exactly n digits follow it
MarkerAt(text, p, n) ==
    /\ n >= 1
    /\ p + n <= Len(text)
    /\ text[p] = RefMark
    /\ \A j \in 1..n : IsDigit(text[p + j])
    /\ p + n < Len(text) => ~IsDigit(text[p + n + 1])

Markers(text) == {m \in (1..Len(text)) \X (1..Len(text)) : MarkerAt(text, m[1], m[2])}

\* C3: in the reply path, every DELETE, PUT and GET goes to the task whose id
\* is the digits of the (leftmost) "Ref: #<digits>" of the replied-to text;
\* without such a marker the handler ends on "cannot modify", the language
\* model not called and no backend call made.
C3_Reference ==
    (update.reply_to_bot /\ pc # "reply") =>
        LET text == update.original_text IN
        IF Markers(text) = {}
        THEN pc = "done" /\ log = <<Say("cannot_modify")>>
        ELSE /\ Say("cannot_modify") \notin {log[k] : k \in 1..Len(log)}
             /\ \A k \in 1..Len(log) :
                   log[k].ev \in {"DELETE", "PUT", "GET"} =>
                      \E m \in Markers(text) :
                         /\ \A o \in Markers(text) : m[1] <= o[1]
                         /\ log[k].id = SubSeq(text, m[1] + 1, m[1] + m[2])

\* a reply to "Ref: #12" has been applied: PUT and GET went to task 12
C3_Witness ==
    /\ pc = "done"
    /\ update.reply_to_bot
    /\ update.original_text = <<RefMark, "1", "2">>
    /\ \E k \in 1..Len(log) : log[k] = CallId("PUT", <<"1", "2">>)
    /\ \E k \in 1..Len(log) : log[k] = CallId("GET", <<"1", "2">>)
    /\ log[Len(log)] = Say("updated")

\* C9: a reply UPDATE that changes deadline_date is written with a
\* time_given that the resolver has computed for it (the new deadline minus
\* the record's allocated_date): one is present, and it is not merely the
\* value the model's answer carried.
C9_Recomputed ==
    (req.op = "PUT" /\ req.body.deadline_date # Absent) =>
        /\ req.body.time_given # Absent
        /\ req.body.time_given # classification.fields.time_given

\* the positions of the log that hold entry e
At(e) == {k \in 1..Len(log) : log[k] = e}

\* C14: in a reply UPDATE with non-empty fields, a PUT that succeeds is
\* followed by the GET of the same task before anything is said, and the
\* success confirmation is only ever sent after a successful PUT and that
\* GET; a PUT that fails is followed by no GET and by a failure message,
\* which carries the backend's text when the backend answered.
C14_UpdateFlow ==
    update.reply_to_bot =>
        /\ At(Say("updated")) # {} =>
              /\ req.op = "PUT" /\ req.out = "ok_200"
              /\ log[Len(log)] = Say("updated")
        /\ (req.op = "PUT" /\ req.out = "ok_200") =>
              /\ Len(log) >= 3
              /\ log[Len(log) - 2] = CallId("PUT", task_id)
              /\ log[Len(log) - 1] = CallId("GET", task_id)
              /\ log[Len(log)] \in {Say("updated"), Say("reply_failed")}
        /\ (req.op = "PUT" /\ req.out # "ok_200") =>
              /\ At(CallId("GET", task_id)) = {}
              /\ At(Say("updated")) = {}
              /\ log[Len(log) - 1] = CallId("PUT", task_id)
              /\ log[Len(log)] = IF req.out = "not_200" THEN Say("update_failed")
                                 ELSE Say("reply_failed")

\* the PUT was answered 200, the task fetched again, the confirmation sent
C14_Witness ==
    /\ update.reply_to_bot
    /\ pc = "done"
    /\ req.op = "PUT" /\ req.out = "ok_200"
    /\ fetched = "none"
    /\ log = <<Call("LLM_REPLY"), CallId("PUT", task_id), CallId("GET", task_id),
               Say("updated")>>

\* the keys of a dict, from those the model tells apart
Keys(d) == {k \in DOMAIN d : d[k] # Absent}

\* C15: the body of every PUT holds only keys among task_number,
\* assigned_agency, deadline_date and description, whatever fields the
\* language model returned.
C15_AllowedKeys ==
    req.op = "PUT" =>
        Keys(req.body) \subseteq {"task_number", "assigned_agency", "deadline_date", "description"}

\* C16: when assigned_agency is among the fields of a reply UPDATE, the
\* directory is fetched for this reply before the PUT and the PUT carries
\* what normalize_to_display_name makes of the model's value against that
\* directory, a string; when the normalizer raises, nothing is sent.
C16_AgencyNormalized ==
    (/\ update.reply_to_bot
     /\ pc = "done"
     /\ classification.t = "object"
     /\ classification.action = UPDATE
     /\ ~NoUpdates(classification.fields)
     /\ classification.fields.assigned_agency # Absent) =>
        LET norm == normalize_to_display_name(raw_officers, classification.fields.assigned_agency)
        IN  /\ fetched # "none"
            /\ log[2] = Call("GET_EMPLOYEES")
            /\ IF norm = Raise
               THEN req.op # "PUT" /\ At(CallId("PUT", task_id)) = {}
               ELSE /\ req.op = "PUT"
                    /\ IsString(req.body.assigned_agency)
                    /\ req.body.assigned_agency = norm
                    /\ log[3] = CallId("PUT", task_id)

\* the model named the officer "a", the directory fetched for the reply maps
\* "a" to "A", and the PUT carries "A"
C16_Witness ==
    /\ update.reply_to_bot
    /\ pc = "done"
    /\ req.op = "PUT"
    /\ classification.fields.assigned_agency = Str(<<"a">>)
    /\ fetched = "ok"
    /\ raw_officers = <<[name |-> Str(<<"a">>), display_name |-> Str(<<"A">>)]>>
    /\ req.body.assigned_agency = Str(<<"A">>)

\* C17: when the action the model returned is neither DELETE nor UPDATE
\* (another value or none), the resolver says it did not understand and
\* ends: no DELETE, PUT or GET and no directory fetch.
C17_Unrecognized ==
    (/\ update.reply_to_bot
     /\ classification.t = "object"
     /\ classification.action \notin {DELETE, UPDATE}) =>
        /\ pc = "done"
        /\ log = <<Call("LLM_REPLY"), Say("not_understood")>>
        /\ req = NoRequest
        /\ fetched = "none"

\* the model answered with an action the resolver does not know
C17_Witness ==
    /\ update.reply_to_bot
    /\ pc = "done"
    /\ classification.t = "object"
    /\ classification.action = Str(<<"OTHER">>)
    /\ task_id = <<"1", "2">>
    /\ log[Len(log)] = Say("not_understood")

\* C18: a reply leads to at most one DELETE or PUT, and when that call is
\* answered with a failure, or raises, the failure message follows it at
\* once and the handler ends.
C18_NoRetry ==
    update.reply_to_bot =>
        /\ Len(Mutating(log)) <= 1
        /\ (req.op \in {"DELETE", "PUT"} /\ req.out # "ok_200") =>
              /\ pc = "done"
              /\ log[Len(log) - 1] = CallId(req.op, task_id)
              /\ log[Len(log)] =
                    IF req.out = "exception" THEN Say("reply_failed")
                    ELSE IF req.op = "DELETE" THEN Say("delete_failed")
                    ELSE Say("update_failed")

\* the backend refused the DELETE, which was reported and not repeated
C18_Witness ==
    /\ update.reply_to_bot
    /\ pc = "done"
    /\ req.op = "DELETE" /\ req.out = "not_200"
    /\ log = <<Call("LLM_REPLY"), CallId("DELETE", task_id), Say("delete_failed")>>

FetchFailed == fetched \in {"exception", "not_200", "badbody"}

\* C19: a directory fetch that fails (the request raises, the status is not
\* 200, the body does not decode) gives the empty directory and raises
\* nothing; the CREATE flow goes on to the extraction, and every task it
\* posts is assigned to the extractor's name as it came, or to "Steno" when
\* there was none.
C19_FetchTotal ==
    FetchFailed =>
        /\ raw_officers = <<>>
        /\ ~update.reply_to_bot =>
              /\ pc # "core"
              /\ At(Call("uncaught")) = {}
              /\ pc = "done" => classification # Absent
              /\ PostOfItem =>
                    req.body.assigned_agency =
                       IF Truthy(item.assigned_agency) THEN item.assigned_agency
                       ELSE DefaultAgency

\* the directory's body did not decode, and the task named "a" was accepted
\* by the backend under that name
C19_Witness ==
    /\ fetched = "badbody"
    /\ ~update.reply_to_bot
    /\ PostOfItem
    /\ req.accepted
    /\ item.assigned_agency = Str(<<"a">>)
    /\ req.body.assigned_agency = Str(<<"a">>)

\* C20: once a POST for a task has been accepted, no further POST is made
\* for that task, so the backend accepts at most one create per task.
C20_SingleCreate ==
    LET posts == Posts(log) IN
    \A k \in 1..Len(posts) :
        posts[k].accepted => \A j \in 1..Len(posts) : posts[j].idx = posts[k].idx => j <= k

\* C21: the id the reply resolver takes from the text of a confirmation is
\* the id the backend gave the record, whatever the task's title.
C21_RoundTrip ==
    ref_pc = "resolved" =>
        /\ match # NoMatch
        /\ match.group1 = Decimal(created_task.id)

\* C22: against a backend that refuses a create only when the task_number
\* is taken, a commit of title D is accepted under the first free name of
\* D, D (2), ..., D (5): every name it tried before the accepted one was
\* taken, and it fails only when all five names it tried were taken; the
\* records of identical commands, run one after another or interleaved,
\* have pairwise distinct task_numbers, and no record the backend held is
\* replaced.
C22_FirstFree ==
    /\ \A h \in Handlers :
          LET posts == h_posts[h] IN
          /\ \A k \in 1..Len(posts) :
                /\ posts[k].task_number = NameOfAttempt(k)
                /\ k < Len(posts) => ~posts[k].accepted
          /\ (h_pc[h] \in {"pause", "done"} /\ ~h_success[h]) =>
                /\ Len(posts) = MaxAttempts
                /\ \A k \in 1..Len(posts) : ~posts[k].accepted
          /\ (h_pc[h] \in {"pause", "done"} /\ h_success[h]) =>
                posts[Len(posts)].accepted
    /\ \A a, b \in 1..Len(records) :
          a # b => records[a].task_number # records[b].task_number
    /\ Len(records) >= Len(base)
    /\ SubSeq(records, 1, Len(base)) = base

====
